---------------------------- MODULE Spec2Model ----------------------------
(***************************************************************************)
(* SHPLONK verifier core (src/protocol/halo2/verifier/shplonk.rs).         *)
(* verify_proof as a step machine over the transcript, and                 *)
(* intermediate_sets / IntermediateSet::new / IntermediateSet::msm as      *)
(* operators over a small prime field.                                     *)
(***************************************************************************)
EXTENDS Integers, Sequences, FiniteSets, TLC

VARIABLES
    protocol,     \* &Protocol<C>: the compiled protocol handed to verify_proof
    statements,   \* &[&[C::Scalar]]: the public inputs handed to verify_proof
    pc,           \* position inside verify_proof / Proof::read
    cursor,       \* index of the next statement scalar or auxiliary phase
    log,          \* the operations performed on the transcript so far, in order
    proof,        \* the fields of Proof read so far
    table,        \* the evaluation table (HashMap<Query, LoadedScalar>), as a function
    sets,         \* the Vec<IntermediateSet> built by intermediate_sets
    pairing,      \* <<lhs, rhs>> handed to strategy.process, or <<>>
    calls,        \* how many times strategy.process was called
    result        \* what verify_proof returned

vars == <<protocol, statements, pc, cursor, log, proof, table, sets, pairing, calls, result>>

-----------------------------------------------------------------------------
(* The scalar field C::Scalar and the domain, instantiated small.          *)

\* modulus of the scalar field
P == 17
\* protocol.domain.n = 2^k
N == 4
\* protocol.domain generator: an element of order N in the field
Omega == 4

\* longest protocol.queries explored by SpecSets
MaxQueries == 4
\* the poly indices and rotations the explored queries draw from
Polys == {0, 1}
Rotations == {-1, 0, 1}
\* the values a squeezed challenge takes
ChallengeVals == {2, 3}
\* the values of z and z_prime SpecSets draws from
PointVals == {2, 3, 4}
\* the values of a scalar read from the transcript, and of a statement scalar
EvalVals == {1, 6}
StatementVals == {3}
\* the most statements, and the longest statement, verify_proof is handed
MaxStatements == 2
MaxStatementLen == 5
\* the coefficients of the probe polynomials
CoeffVals == {0, 1, 3}

Add(a, b) == (a + b) % P
Sub(a, b) == (a - b + P) % P
Mul(a, b) == (a * b) % P
Neg(a) == (P - a) % P

RECURSIVE Pow(_, _)
Pow(a, e) == IF e = 0 THEN 1 ELSE Mul(a, Pow(a, e - 1))

\* Field::invert: None on zero; the callers unwrap. Inv(0) = 0 is never used:
\* every caller's panic predicate covers the zero case.
Inv(a) == Pow(a, P - 2)

RECURSIVE SumSeq(_)
SumSeq(s) == IF s = <<>> THEN 0 ELSE Add(Head(s), SumSeq(Tail(s)))

RECURSIVE ProductSeq(_)
ProductSeq(s) == IF s = <<>> THEN 1 ELSE Mul(Head(s), ProductSeq(Tail(s)))

\* LoadedScalar::powers(n) = [s^0, s^1, ..., s^(n-1)]
Powers(s, n) == [i \in 1..n |-> Pow(s, i - 1)]

\* iter.rev()
Reverse(s) == [i \in 1..Len(s) |-> s[Len(s) + 1 - i]]

\* Domain::rotate_scalar(s, r) = s * omega^r
RotateScalar(s, r) == IF r >= 0 THEN Mul(s, Pow(Omega, r)) ELSE Mul(s, Pow(Inv(Omega), -r))

\* LoadedScalar::sum_products_with_coeff_and_constant
RECURSIVE SumProductsWithCoeffAndConstant(_, _)
SumProductsWithCoeffAndConstant(terms, constant) ==
    IF terms = <<>> THEN constant
    ELSE Add(Mul(Head(terms)[1], Mul(Head(terms)[2], Head(terms)[3])),
             SumProductsWithCoeffAndConstant(Tail(terms), constant))

\* Option<T>
None == <<>>
Some(v) == <<v>>

Max(S) == CHOOSE x \in S : \A y \in S : y <= x
Min(a, b) == IF a <= b THEN a ELSE b

Query(poly, rotation) == [poly |-> poly, rotation |-> rotation]

-----------------------------------------------------------------------------
(* intermediate_sets: grouping of the queries                              *)

\* Iterator::position: index of the first entry for poly, or 0
PolyPosition(poly_rotations, poly) ==
    IF \E i \in 1..Len(poly_rotations) : poly_rotations[i].poly = poly
    THEN CHOOSE i \in 1..Len(poly_rotations) :
            /\ poly_rotations[i].poly = poly
            /\ \A j \in 1..(i - 1) : poly_rotations[j].poly # poly
    ELSE 0

PolyRotationsStepDup(poly_rotations, query) ==
    Append(poly_rotations,
           [poly |-> query.poly, rotations |-> <<query.rotation>>, set |-> {query.rotation}])

\* the closure folded over protocol.queries
PolyRotationsStep(poly_rotations, query) ==
    LET pos == PolyPosition(poly_rotations, query.poly)
    IN  IF pos # 0
        THEN IF query.rotation \notin poly_rotations[pos].set
             THEN [poly_rotations EXCEPT ![pos].rotations = Append(@, query.rotation),
                                         ![pos].set = @ \cup {query.rotation}]
             ELSE poly_rotations
        ELSE Append(poly_rotations,
                    [poly |-> query.poly, rotations |-> <<query.rotation>>,
                     set |-> {query.rotation}])

RECURSIVE PolyRotationsFold(_, _)
PolyRotationsFold(poly_rotations, queries) ==
    IF queries = <<>> THEN poly_rotations
    ELSE PolyRotationsFold(PolyRotationsStep(poly_rotations, Head(queries)), Tail(queries))

PolyRotations(queries) == PolyRotationsFold(<<>>, queries)

\* the HashSet of every rotation queried
Superset(queries) == {queries[i].rotation : i \in 1..Len(queries)}

\* usize::next_power_of_two (0 and 1 give 1)
RECURSIVE NextPowerOfTwoFrom(_, _)
NextPowerOfTwoFrom(x, c) == IF c >= x THEN c ELSE NextPowerOfTwoFrom(x, 2 * c)
NextPowerOfTwo(x) == NextPowerOfTwoFrom(x, 1)

\* usize::log2 (floor)
RECURSIVE Log2(_)
Log2(x) == IF x <= 1 THEN 0 ELSE 1 + Log2(x \div 2)

\* size of powers_of_z; poly_rotations is non-empty
PowersOfZSize(poly_rotations) ==
    LET max_k == Max({Len(poly_rotations[i].rotations) : i \in 1..Len(poly_rotations)})
    IN  IF Log2(NextPowerOfTwo(max_k - 1)) + 1 > 2
        THEN Log2(NextPowerOfTwo(max_k - 1)) + 1
        ELSE 2

\* z_prime - z * omega^rotation for every rotation of the superset
ZPrimeMinusZOmegaI(queries, z, z_prime) ==
    [rotation \in Superset(queries) |-> Sub(z_prime, Mul(z, RotateScalar(1, rotation)))]

-----------------------------------------------------------------------------
(* IntermediateSet::new                                                    *)

\* usize bitwise and
RECURSIVE BitAnd(_, _)
BitAnd(a, b) ==
    IF a = 0 \/ b = 0 THEN 0
    ELSE (a % 2) * (b % 2) + 2 * BitAnd(a \div 2, b \div 2)

\* the fold over powers_of_z.iter().enumerate().skip(1); i is the 0-based index
RECURSIVE ZPowFold(_, _, _, _)
ZPowFold(acc, i, k_minus_one, powers_of_z) ==
    IF i >= Len(powers_of_z) THEN acc
    ELSE ZPowFold(IF BitAnd(k_minus_one, 2 ^ i) = 1 THEN Mul(acc, powers_of_z[i + 1]) ELSE acc,
                  i + 1, k_minus_one, powers_of_z)

ZPowKMinusOne(rotations, powers_of_z) == ZPowFold(1, 1, Len(rotations) - 1, powers_of_z)

Omegas(rotations) == [j \in 1..Len(rotations) |-> RotateScalar(1, rotations[j])]

NormalizedEllPrimes(omegas) ==
    [j \in 1..Len(omegas) |->
        ProductSeq([i \in 1..Len(omegas) |->
                        IF i # j THEN Sub(omegas[j], omegas[i]) ELSE 1])]

BarycentricValueNoNeg(omega, normalized_ell_prime, z_pow_k_minus_one, z_prime, z) ==
    SumProductsWithCoeffAndConstant(
        << <<normalized_ell_prime, z_pow_k_minus_one, z_prime>>,
           <<Mul(normalized_ell_prime, omega), z_pow_k_minus_one, z>> >>, 0)

\* the value inverted into one barycentric weight
BarycentricValue(omega, normalized_ell_prime, z_pow_k_minus_one, z_prime, z) ==
    SumProductsWithCoeffAndConstant(
        << <<normalized_ell_prime, z_pow_k_minus_one, z_prime>>,
           <<Neg(Mul(normalized_ell_prime, omega)), z_pow_k_minus_one, z>> >>, 0)

BarycentricValues(rotations, powers_of_z, z_prime) ==
    LET omegas == Omegas(rotations)
        normalized_ell_primes == NormalizedEllPrimes(omegas)
        z == powers_of_z[2]
        z_pow_k_minus_one == ZPowKMinusOne(rotations, powers_of_z)
    IN  [j \in 1..Len(rotations) |->
            BarycentricValue(omegas[j], normalized_ell_primes[j], z_pow_k_minus_one, z_prime, z)]

\* z_s: the product of z_prime - z*omega^r over the set's rotations
ZS(rotations, z_prime_minus_z_omega_i) ==
    ProductSeq([j \in 1..Len(rotations) |-> z_prime_minus_z_omega_i[rotations[j]]])

ZS1OverZSSwapped(z_s_1, z_s) ==
    IF z_s_1 = None THEN None ELSE Some(Mul(z_s, Inv(z_s_1[1])))

\* z_s_1_over_z_s
ZS1OverZS(z_s_1, z_s) ==
    IF z_s_1 = None THEN None ELSE Some(Mul(z_s_1[1], Inv(z_s)))

RemainderCoeffUnnormalised(z_s_1_over_z_s, barycentric_weights_sum_inv) ==
    IF z_s_1_over_z_s = None THEN 1 ELSE z_s_1_over_z_s[1]

\* remainder_coeff
RemainderCoeff(z_s_1_over_z_s, barycentric_weights_sum_inv) ==
    IF z_s_1_over_z_s = None THEN barycentric_weights_sum_inv
    ELSE Mul(z_s_1_over_z_s[1], barycentric_weights_sum_inv)

IntermediateSetNew(rotations, powers_of_z, z_prime, z_prime_minus_z_omega_i, z_s_1) ==
    LET values == BarycentricValues(rotations, powers_of_z, z_prime)
        barycentric_weights == [j \in 1..Len(rotations) |-> Inv(values[j])]
        z_s == ZS(rotations, z_prime_minus_z_omega_i)
        z_s_1_over_z_s == ZS1OverZS(z_s_1, z_s)
        barycentric_weights_sum_inv == Inv(SumSeq(barycentric_weights))
    IN  [polys |-> <<>>,
         rotations |-> rotations,
         z_s |-> z_s,
         commitment_coeff |-> z_s_1_over_z_s,
         evaluation_coeffs |-> barycentric_weights,
         remainder_coeff |-> RemainderCoeff(z_s_1_over_z_s, barycentric_weights_sum_inv)]

\* whether one of the invert().unwrap() calls of IntermediateSet::new panics
IntermediateSetNewPanics(rotations, powers_of_z, z_prime, z_prime_minus_z_omega_i, z_s_1) ==
    LET values == BarycentricValues(rotations, powers_of_z, z_prime)
    IN  \/ \E j \in 1..Len(rotations) : values[j] = 0
        \/ z_s_1 # None /\ ZS(rotations, z_prime_minus_z_omega_i) = 0
        \/ SumSeq([j \in 1..Len(rotations) |-> Inv(values[j])]) = 0

-----------------------------------------------------------------------------
(* intermediate_sets: building the sets                                    *)

\* Iterator::position over the sets built so far: same rotation set, or 0
SetPosition(intermediate_sets, set) ==
    IF \E i \in 1..Len(intermediate_sets) :
            {intermediate_sets[i].rotations[j] : j \in 1..Len(intermediate_sets[i].rotations)} = set
    THEN CHOOSE i \in 1..Len(intermediate_sets) :
            /\ {intermediate_sets[i].rotations[j] : j \in 1..Len(intermediate_sets[i].rotations)} = set
            /\ \A h \in 1..(i - 1) :
                {intermediate_sets[h].rotations[j] : j \in 1..Len(intermediate_sets[h].rotations)} # set
    ELSE 0

Contains(s, x) == \E i \in 1..Len(s) : s[i] = x

\* the closure folded over poly_rotations; acc carries the Vec, z_s_1 and
\* whether IntermediateSet::new has panicked
IntermediateSetsStep(acc, entry, powers_of_z, z_prime, z_prime_minus_z_omega_i) ==
    LET pos == SetPosition(acc.sets, entry.set)
    IN  IF acc.panicked THEN acc
        ELSE IF pos # 0
        THEN IF ~Contains(acc.sets[pos].polys, entry.poly)
             THEN [acc EXCEPT !.sets[pos].polys = Append(@, entry.poly)]
             ELSE acc
        ELSE IF IntermediateSetNewPanics(entry.rotations, powers_of_z, z_prime,
                                         z_prime_minus_z_omega_i, acc.z_s_1)
        THEN [acc EXCEPT !.panicked = TRUE]
        ELSE LET intermediate_set ==
                    [IntermediateSetNew(entry.rotations, powers_of_z, z_prime,
                                        z_prime_minus_z_omega_i, acc.z_s_1)
                         EXCEPT !.polys = <<entry.poly>>]
             IN  [sets |-> Append(acc.sets, intermediate_set),
                  z_s_1 |-> IF acc.z_s_1 = None THEN Some(intermediate_set.z_s) ELSE acc.z_s_1,
                  panicked |-> FALSE]

RECURSIVE IntermediateSetsFold(_, _, _, _, _)
IntermediateSetsFold(acc, poly_rotations, powers_of_z, z_prime, z_prime_minus_z_omega_i) ==
    IF poly_rotations = <<>> THEN acc
    ELSE IntermediateSetsFold(
            IntermediateSetsStep(acc, Head(poly_rotations), powers_of_z, z_prime,
                                 z_prime_minus_z_omega_i),
            Tail(poly_rotations), powers_of_z, z_prime, z_prime_minus_z_omega_i)

\* intermediate_sets(protocol, loader, z, z_prime): [sets, z_s_1, panicked]
IntermediateSets(queries, z, z_prime) ==
    IF queries = <<>>
    THEN [sets |-> <<>>, z_s_1 |-> None, panicked |-> TRUE]  \* max().unwrap() on None
    ELSE LET poly_rotations == PolyRotations(queries)
         IN  IntermediateSetsFold([sets |-> <<>>, z_s_1 |-> None, panicked |-> FALSE],
                                  poly_rotations,
                                  Powers(z, PowersOfZSize(poly_rotations)),
                                  z_prime,
                                  ZPrimeMinusZOmegaI(queries, z, z_prime))

-----------------------------------------------------------------------------
(* Expression, and the parts of Protocol and CommonPolynomialEvaluation    *)
(* that verify_proof uses                                                  *)

Constant(v) == [tag |-> "Constant", a |-> 0, b |-> 0, v |-> v]
Common(i) == [tag |-> "Common", a |-> 0, b |-> 0, v |-> i]
Polynomial(q) == [tag |-> "Polynomial", a |-> 0, b |-> 0, v |-> q]
Challenge(i) == [tag |-> "Challenge", a |-> 0, b |-> 0, v |-> i]
Negated(a) == [tag |-> "Negated", a |-> a, b |-> 0, v |-> 0]
Sum(a, b) == [tag |-> "Sum", a |-> a, b |-> b, v |-> 0]
Product(a, b) == [tag |-> "Product", a |-> a, b |-> b, v |-> 0]
Scaled(a, v) == [tag |-> "Scaled", a |-> a, b |-> 0, v |-> v]

\* Expression::degree
RECURSIVE Degree(_)
Degree(e) ==
    CASE e.tag = "Constant" -> 0
      [] e.tag = "Common" -> 1
      [] e.tag = "Polynomial" -> 1
      [] e.tag = "Challenge" -> 0
      [] e.tag = "Negated" -> Degree(e.a)
      [] e.tag = "Sum" -> IF Degree(e.a) >= Degree(e.b) THEN Degree(e.a) ELSE Degree(e.b)
      [] e.tag = "Product" -> Degree(e.a) + Degree(e.b)
      [] e.tag = "Scaled" -> Degree(e.a)

\* Expression::used_langrange
RECURSIVE UsedLangrange(_)
UsedLangrange(e) ==
    CASE e.tag = "Common" -> {e.v}
      [] e.tag \in {"Negated", "Scaled"} -> UsedLangrange(e.a)
      [] e.tag \in {"Sum", "Product"} -> UsedLangrange(e.a) \cup UsedLangrange(e.b)
      [] OTHER -> {}

\* Protocol::vanishing_poly: the index after every committed and statement poly
VanishingPoly(proto) ==
    proto.preprocessed + proto.num_statement + SumSeq(proto.num_auxiliary)

\* CommonPolynomialEvaluation: zn = z^n
Zn(z) == Pow(z, N)

\* CommonPolynomialEvaluation::get(Lagrange(i)) = omega^i (z^n - 1) / (n (z - omega^i))
LagrangeEval(i, z) ==
    Mul(Mul(RotateScalar(1, i), Sub(Zn(z), 1)),
        Inv(Mul(N, Sub(z, RotateScalar(1, i)))))

\* langranges(protocol, statements), as the set of indices it yields
Langranges(proto, stmts) ==
    UNION {UsedLangrange(proto.relations[i]) : i \in 1..Len(proto.relations)}
        \cup (0..(IF stmts = <<>> THEN 0 ELSE Max({Len(stmts[i]) : i \in 1..Len(stmts)})) - 1)

\* CommonPolynomialEvaluation::new: the Lagrange evaluations it holds
CommonPolyEval(proto, stmts, z) ==
    [i \in Langranges(proto, stmts) |-> LagrangeEval(i, z)]

\* CommonPolynomialEvaluation::new inverts z^n - 1
CommonPolyEvalPanics(z) == Zn(z) = 1

\* Result<_, Error> of verify_proof; NoResult while it has not returned
NoResult == [tag |-> "None", val |-> <<"", 0>>]
Ok(v) == [tag |-> "Ok", val |-> <<"", v>>]
Err(kind, arg) == [tag |-> "Err", val |-> <<kind, arg>>]

\* HashMap::from_iter over a sequence of <<key, value>>: a later entry replaces an earlier one
FromIter(pairs) ==
    [k \in {pairs[i][1] : i \in 1..Len(pairs)} |->
        pairs[Max({i \in 1..Len(pairs) : pairs[i][1] = k})][2]]

\* HashMap::insert
Insert(map, k, v) == [x \in (DOMAIN map) \cup {k} |-> IF x = k THEN v ELSE map[x]]

-----------------------------------------------------------------------------
(* MSM: a linear combination of EC points plus a constant scalar           *)

\* the EC points of a run: preprocessed commitments and the points read
Points == {"pre", "aux", "quot", "w", "w_prime"} \X {0, 1}

MsmBase(g) == [scalar |-> 0, bases |-> [h \in Points |-> IF h = g THEN 1 ELSE 0]]
MsmScalar(s) == [scalar |-> s, bases |-> [h \in Points |-> 0]]
MsmAdd(m1, m2) ==
    [scalar |-> Add(m1.scalar, m2.scalar),
     bases |-> [h \in Points |-> Add(m1.bases[h], m2.bases[h])]]
MsmScale(m, s) ==
    [scalar |-> Mul(m.scalar, s), bases |-> [h \in Points |-> Mul(m.bases[h], s)]]
MsmSub(m1, m2) == MsmAdd(m1, MsmScale(m2, Neg(1)))

\* Iterator::reduce(|acc, msm| acc + msm) over a non-empty sequence
RECURSIVE MsmReduceFrom(_, _)
MsmReduceFrom(acc, msms) ==
    IF msms = <<>> THEN acc ELSE MsmReduceFrom(MsmAdd(acc, Head(msms)), Tail(msms))
MsmReduce(msms) == MsmReduceFrom(Head(msms), Tail(msms))

-----------------------------------------------------------------------------
(* Proof::commitments and Proof::evaluations                               *)

\* Proof before anything is read
EmptyProof ==
    [statements |-> <<>>, auxiliaries |-> <<>>, challenges |-> <<>>, alpha |-> 0,
     quotients |-> <<>>, z |-> 0, evaluations |-> <<>>, mu |-> 0, gamma |-> 0,
     w |-> <<>>, z_prime |-> 0, w_prime |-> <<>>]

\* reduce(..).unwrap() over no quotient panics
CommitmentsPanics(prf) == prf.quotients = <<>>

\* Proof::commitments: poly index -> MSM
Commitments(proto, prf) ==
    LET auxiliary_offset == proto.preprocessed + proto.num_statement
        zn_powers == Powers(Zn(prf.z), Len(prf.quotients))
    IN  FromIter(
            [i \in 1..proto.preprocessed |-> <<i - 1, MsmBase(<<"pre", i - 1>>)>>]
            \o [i \in 1..Len(prf.auxiliaries) |->
                    <<auxiliary_offset + i - 1, MsmBase(prf.auxiliaries[i])>>]
            \o << <<VanishingPoly(proto),
                    MsmReduce([i \in 1..Len(prf.quotients) |->
                                  MsmScale(MsmBase(prf.quotients[i]), zn_powers[i])])>> >>)

\* the sum of statement[j] * L_j(z)
StatementEvaluation(statement, common_poly_eval) ==
    SumSeq([j \in 1..Len(statement) |-> Mul(statement[j], common_poly_eval[j - 1])])

\* the evaluation table before the quotient evaluation is inserted
InitialEvaluations(proto, prf, common_poly_eval) ==
    FromIter(
        [i \in 1..Len(prf.statements) |->
            <<Query(proto.preprocessed + i - 1, 0), StatementEvaluation(prf.statements[i], common_poly_eval)>>]
        \o [i \in 1..Min(Len(proto.evaluations), Len(prf.evaluations)) |->
                <<proto.evaluations[i], prf.evaluations[i]>>])

\* Expression::evaluate with the closures Proof::evaluations passes
RECURSIVE Evaluate(_, _, _, _)
Evaluate(e, evaluations, prf, common_poly_eval) ==
    CASE e.tag = "Constant" -> Ok(e.v)
      [] e.tag = "Common" -> Ok(common_poly_eval[e.v])
      [] e.tag = "Polynomial" ->
            IF e.v \in DOMAIN evaluations THEN Ok(evaluations[e.v]) ELSE Err("MissingQuery", e.v)
      [] e.tag = "Challenge" ->
            IF e.v < Len(prf.challenges) THEN Ok(prf.challenges[e.v + 1])
            ELSE Err("MissingChallenge", e.v)
      [] e.tag = "Negated" ->
            LET a == Evaluate(e.a, evaluations, prf, common_poly_eval)
            IN  IF a.tag = "Ok" THEN Ok(Neg(a.val[2])) ELSE a
      [] e.tag = "Sum" ->
            LET a == Evaluate(e.a, evaluations, prf, common_poly_eval)
                b == Evaluate(e.b, evaluations, prf, common_poly_eval)
            IN  IF a.tag # "Ok" THEN a ELSE IF b.tag # "Ok" THEN b
                ELSE Ok(Add(a.val[2], b.val[2]))
      [] e.tag = "Product" ->
            LET a == Evaluate(e.a, evaluations, prf, common_poly_eval)
                b == Evaluate(e.b, evaluations, prf, common_poly_eval)
            IN  IF a.tag # "Ok" THEN a ELSE IF b.tag # "Ok" THEN b
                ELSE Ok(Mul(a.val[2], b.val[2]))
      [] e.tag = "Scaled" ->
            LET a == Evaluate(e.a, evaluations, prf, common_poly_eval)
            IN  IF a.tag = "Ok" THEN Ok(Mul(a.val[2], e.v)) ELSE a

\* power_of_alpha * relation(z) for every relation, in relation order
RelationTerms(proto, prf, evaluations, common_poly_eval) ==
    LET powers_of_alpha == Reverse(Powers(prf.alpha, Len(proto.relations)))
    IN  [i \in 1..Len(proto.relations) |->
            LET evaluation == Evaluate(proto.relations[i], evaluations, prf, common_poly_eval)
            IN  IF evaluation.tag = "Ok" THEN Ok(Mul(powers_of_alpha[i], evaluation.val[2]))
                ELSE evaluation]

LastError(results) ==
    IF \E i \in 1..Len(results) : results[i].tag = "Err"
    THEN results[Max({i \in 1..Len(results) : results[i].tag = "Err"})]
    ELSE NoResult

\* collect::<Result<Vec<_>, Error>>()?: the first Err of a sequence of results, or NoResult
FirstError(results) ==
    IF \E i \in 1..Len(results) : results[i].tag = "Err"
    THEN results[CHOOSE i \in 1..Len(results) :
                    /\ results[i].tag = "Err"
                    /\ \A h \in 1..(i - 1) : results[h].tag # "Err"]
    ELSE NoResult

\* the quotient evaluation, once every relation evaluated
QuotientEvaluation(terms, z) ==
    Mul(SumSeq([i \in 1..Len(terms) |-> terms[i].val[2]]), Inv(Sub(Zn(z), 1)))

-----------------------------------------------------------------------------
(* IntermediateSet::msm and the combination into (lhs, rhs)                *)

MuWeightsAscending(powers_of_mu, m) == SubSeq(powers_of_mu, 1, m)

\* powers_of_mu.iter().take(self.polys.len()).rev()
MuWeights(powers_of_mu, m) == Reverse(SubSeq(powers_of_mu, 1, m))

\* a commitments.get(poly).unwrap() or evaluations.get(query).unwrap() on a missing key
MsmPanics(set, commitments, evaluations) ==
    \E t \in 1..Len(set.polys) :
        \/ set.polys[t] \notin DOMAIN commitments
        \/ \E j \in 1..Len(set.rotations) :
                Query(set.polys[t], set.rotations[j]) \notin DOMAIN evaluations

\* IntermediateSet::msm
Msm(set, commitments, evaluations, powers_of_mu) ==
    LET weights == MuWeights(powers_of_mu, Len(set.polys))
    IN  MsmReduce(
            [t \in 1..Len(set.polys) |->
                LET poly == set.polys[t]
                    commitment ==
                        IF set.commitment_coeff # None
                        THEN MsmScale(commitments[poly], set.commitment_coeff[1])
                        ELSE commitments[poly]
                    remainder ==
                        Mul(set.remainder_coeff,
                            SumSeq([j \in 1..Len(set.rotations) |->
                                        Mul(set.evaluation_coeffs[j],
                                            evaluations[Query(poly, set.rotations[j])])]))
                IN  MsmScale(MsmSub(commitment, MsmScalar(remainder)), weights[t])])

\* proof.gamma.powers(sets.len()).into_iter().rev()
GammaWeights(gamma, n) == Reverse(Powers(gamma, n))

\* the block computing f, then rhs and lhs: <<lhs, rhs>>
Combine(intermediate_sets, commitments, evaluations, prf) ==
    LET powers_of_mu ==
            Powers(prf.mu, Max({Len(intermediate_sets[s].polys) : s \in 1..Len(intermediate_sets)}))
        weights == GammaWeights(prf.gamma, Len(intermediate_sets))
        f == MsmSub(
                MsmReduce([s \in 1..Len(intermediate_sets) |->
                              MsmScale(Msm(intermediate_sets[s], commitments, evaluations, powers_of_mu),
                                       weights[s])]),
                MsmScale(MsmBase(prf.w), intermediate_sets[1].z_s))
        rhs == MsmBase(prf.w_prime)
        lhs == MsmAdd(f, MsmScale(rhs, prf.z_prime))
    IN  <<lhs, rhs>>

-----------------------------------------------------------------------------
(* The protocols and statements verify_proof is run on                     *)

MakeProtocol(num_statement, num_auxiliary, num_challenge, relations, queries, evaluations) ==
    [transcript_initial_state |-> 7, preprocessed |-> 1, num_statement |-> num_statement,
     num_auxiliary |-> num_auxiliary, num_challenge |-> num_challenge,
     relations |-> relations, queries |-> queries, evaluations |-> evaluations]

\* polys with one statement and one auxiliary phase of one poly:
\* 0 preprocessed, 1 statement, 2 auxiliary, 3 quotient
GateRelation ==
    Sum(Product(Polynomial(Query(2, 0)), Polynomial(Query(0, 0))),
        Negated(Polynomial(Query(1, 0))))
ChallengeRelation ==
    Product(Challenge(0), Scaled(Sum(Polynomial(Query(2, 1)), Common(0)), 3))

MainQueries == <<Query(2, -1), Query(2, 0), Query(2, 1), Query(0, 0), Query(3, 0)>>
MainEvaluations == <<Query(2, -1), Query(2, 0), Query(2, 1), Query(0, 0)>>

\* every query opened is evaluated (scenario S4 plus the quotient)
ProtocolMain ==
    MakeProtocol(1, <<1>>, <<1>>, <<GateRelation, ChallengeRelation>>,
                 MainQueries, MainEvaluations)

\* a query opened whose evaluation the transcript does not carry
ProtocolUnevaluatedQuery ==
    MakeProtocol(1, <<1>>, <<1>>, <<GateRelation>>,
                 MainQueries, <<Query(2, 0), Query(2, 1), Query(0, 0)>>)

\* a relation over an evaluation the table does not hold
ProtocolMissingQuery ==
    MakeProtocol(1, <<1>>, <<1>>, <<GateRelation, Polynomial(Query(0, 1))>>,
                 MainQueries, MainEvaluations)

\* a relation over challenge index len(challenges) (scenario S5)
ProtocolMissingChallenge ==
    MakeProtocol(1, <<1>>, <<1>>,
                 <<GateRelation, Product(Challenge(1), GateRelation), Polynomial(Query(0, 1))>>,
                 MainQueries, MainEvaluations)

\* two auxiliary phases, one challenge phase: polys 2, 3 auxiliary, 4 quotient
ProtocolUnequalPhases ==
    MakeProtocol(1, <<1, 1>>, <<1>>, <<GateRelation, ChallengeRelation>>,
                 <<Query(2, 0), Query(2, 1), Query(0, 0), Query(4, 0)>>,
                 <<Query(2, 0), Query(2, 1), Query(0, 0)>>)

\* two phases; polys 2, 3 auxiliary, 4 quotient
ProtocolTwoPhases ==
    MakeProtocol(1, <<1, 1>>, <<1, 0>>, <<GateRelation, ChallengeRelation>>,
                 <<Query(2, 0), Query(3, 0), Query(2, 1), Query(0, 0), Query(4, 0)>>,
                 <<Query(2, 0), Query(3, 0), Query(2, 1), Query(0, 0)>>)

\* no statement (scenario S6): polys 0 preprocessed, 1 auxiliary, 2 quotient
ProtocolNoStatement ==
    MakeProtocol(0, <<1>>, <<0>>, <<Product(Polynomial(Query(1, 0)), Polynomial(Query(0, 0)))>>,
                 <<Query(1, 0), Query(0, 0), Query(2, 0)>>, <<Query(1, 0), Query(0, 0)>>)

\* relations of degree 0, and no relation at all
ProtocolDegreeZero ==
    MakeProtocol(0, <<>>, <<>>, <<Constant(1)>>, <<Query(0, 0)>>, <<Query(0, 0)>>)
ProtocolNoRelation ==
    MakeProtocol(0, <<>>, <<>>, <<>>, <<Query(0, 0)>>, <<Query(0, 0)>>)

Protocols ==
    <<ProtocolMain, ProtocolUnevaluatedQuery, ProtocolMissingQuery, ProtocolMissingChallenge,
      ProtocolUnequalPhases, ProtocolTwoPhases, ProtocolNoStatement, ProtocolDegreeZero,
      ProtocolNoRelation>>

\* a Protocol carrying nothing but queries
QueriesOnlyProtocol(queries) == MakeProtocol(0, <<>>, <<>>, <<>>, queries, <<>>)

SeqsUpTo(S, n) == UNION {[1..k -> S] : k \in 0..n}

\* the statements handed to verify_proof
StatementChoices == SeqsUpTo(SeqsUpTo(StatementVals, MaxStatementLen), MaxStatements)

-----------------------------------------------------------------------------
(* verify_proof, step by step                                              *)

Init ==
    /\ \E i \in 1..Len(Protocols) : protocol = Protocols[i]
    /\ statements \in StatementChoices
    /\ pc = "start"
    /\ cursor = 0
    /\ log = <<>>
    /\ proof = EmptyProof
    /\ table = <<>>
    /\ sets = <<>>
    /\ pairing = <<>>
    /\ calls = 0
    /\ result = NoResult

\* one operation performed on the transcript
Op(op, arg, into) == [op |-> op, arg |-> arg, into |-> into]

\* `?` on an Err: verify_proof returns it
Return(r) ==
    /\ pc' = "done"
    /\ result' = r

\* an unwrap() on None, or an arithmetic overflow: verify_proof unwinds
Panic ==
    /\ pc' = "panic"
    /\ result' = result

\* transcript.common_scalar(&loader.load_const(&protocol.transcript_initial_state))?
AbsorbInitialState ==
    /\ pc = "start"
    /\ \/ /\ log' = Append(log, Op("common_scalar", protocol.transcript_initial_state, "initial_state"))
          /\ pc' = "read"
          /\ result' = result
       \/ /\ log' = log
          /\ Return(Err("TranscriptRead", 0))
    /\ UNCHANGED <<protocol, statements, cursor, proof, table, sets, pairing, calls>>

CheckStatementsTooFew ==
    /\ pc = "read"
    /\ IF Len(statements) < protocol.num_statement
       THEN Return(Err("InvalidInstances", 0))
       ELSE pc' = "statements" /\ result' = result
    /\ UNCHANGED <<protocol, statements, cursor, log, proof, table, sets, pairing, calls>>

\* Proof::read: statements.len() != protocol.num_statement
CheckStatements ==
    /\ pc = "read"
    /\ IF Len(statements) # protocol.num_statement
       THEN Return(Err("InvalidInstances", 0))
       ELSE pc' = "statements" /\ result' = result
    /\ UNCHANGED <<protocol, statements, cursor, log, proof, table, sets, pairing, calls>>

\* the statement scalars in the order the nested iterators visit them
RECURSIVE Flatten(_)
Flatten(ss) == IF ss = <<>> THEN <<>> ELSE Head(ss) \o Flatten(Tail(ss))

\* loader.load_var(statement); transcript.common_scalar(&statement)?
AbsorbStatement ==
    /\ pc = "statements"
    /\ cursor < Len(Flatten(statements))
    /\ \/ /\ log' = Append(log, Op("common_scalar", Flatten(statements)[cursor + 1], "statement"))
          /\ cursor' = cursor + 1
          /\ UNCHANGED <<pc, result>>
       \/ /\ Return(Err("TranscriptRead", 0))
          /\ UNCHANGED <<log, cursor>>
    /\ UNCHANGED <<protocol, statements, proof, table, sets, pairing, calls>>

\* both collects are done: the statements are loaded
StatementsDone ==
    /\ pc = "statements"
    /\ cursor = Len(Flatten(statements))
    /\ proof' = [proof EXCEPT !.statements = statements]
    /\ pc' = "auxiliaries"
    /\ cursor' = 0
    /\ UNCHANGED <<protocol, statements, log, table, sets, pairing, calls, result>>

\* how many phases num_auxiliary.iter().zip(num_challenge.iter()) yields
Phases(proto) == Min(Len(proto.num_auxiliary), Len(proto.num_challenge))

\* the n EC points a read yields, named by where they land
PointsRead(kind, from, n) == [i \in 1..n |-> <<kind, from + i - 1>>]

\* transcript.read_n_ec_points(n)? of phase cursor
ReadAuxiliaries ==
    /\ pc = "auxiliaries"
    /\ cursor < Phases(protocol)
    /\ LET n == protocol.num_auxiliary[cursor + 1]
       IN  \/ /\ log' = Append(log, Op("read_n_ec_points", n, "auxiliaries"))
              /\ proof' = [proof EXCEPT !.auxiliaries =
                                @ \o PointsRead("aux", Len(proof.auxiliaries), n)]
              /\ pc' = "challenges"
              /\ result' = result
           \/ /\ Return(Err("TranscriptRead", 0))
              /\ UNCHANGED <<log, proof>>
    /\ UNCHANGED <<protocol, statements, cursor, table, sets, pairing, calls>>

\* transcript.squeeze_n_challenges(m) of phase cursor
SqueezeChallenges ==
    /\ pc = "challenges"
    /\ LET m == protocol.num_challenge[cursor + 1]
       IN  /\ log' = Append(log, Op("squeeze_n_challenges", m, "challenges"))
           /\ \E squeezed \in [1..m -> ChallengeVals] :
                 proof' = [proof EXCEPT !.challenges = @ \o squeezed]
    /\ pc' = "auxiliaries"
    /\ cursor' = cursor + 1
    /\ UNCHANGED <<protocol, statements, table, sets, pairing, calls, result>>

\* the zip is exhausted: auxiliaries and challenges are flattened
PhasesDone ==
    /\ pc = "auxiliaries"
    /\ cursor = Phases(protocol)
    /\ pc' = "alpha"
    /\ UNCHANGED <<protocol, statements, cursor, log, proof, table, sets, pairing, calls, result>>

Squeeze(at, then) ==
    /\ pc = at
    /\ log' = Append(log, Op("squeeze_challenge", 0, at))
    /\ \E c \in ChallengeVals : proof' = [proof EXCEPT ![at] = c]
    /\ pc' = then
    /\ UNCHANGED <<protocol, statements, cursor, table, sets, pairing, calls, result>>

\* let alpha = transcript.squeeze_challenge()
SqueezeAlpha == Squeeze("alpha", "quotients")

\* max over the relations of Expression::degree; the relations are non-empty
MaxDegree(proto) == Max({Degree(proto.relations[i]) : i \in 1..Len(proto.relations)})

QuotientCountOffByOne(proto) == MaxDegree(proto)

\* max_degree - 1
QuotientCount(proto) == MaxDegree(proto) - 1

\* transcript.read_n_ec_points(max_degree - 1)?
ReadQuotients ==
    /\ pc = "quotients"
    /\ \/ /\ protocol.relations = <<>>          \* max().unwrap() on None
          /\ Panic
          /\ UNCHANGED <<log, proof>>
       \/ /\ protocol.relations # <<>>
          /\ MaxDegree(protocol) = 0            \* 0 - 1 overflows: a panic with overflow checks
          /\ Panic
          /\ UNCHANGED <<log, proof>>
       \/ /\ protocol.relations # <<>>
          /\ MaxDegree(protocol) = 0            \* wraps to usize::MAX points, which no transcript holds
          /\ Return(Err("TranscriptRead", 0))
          /\ UNCHANGED <<log, proof>>
       \/ /\ protocol.relations # <<>>
          /\ MaxDegree(protocol) >= 1
          /\ log' = Append(log, Op("read_n_ec_points", QuotientCount(protocol), "quotients"))
          /\ proof' = [proof EXCEPT !.quotients = PointsRead("quot", 0, QuotientCount(protocol))]
          /\ pc' = "z"
          /\ result' = result
       \/ /\ protocol.relations # <<>>
          /\ MaxDegree(protocol) >= 1
          /\ Return(Err("TranscriptRead", 0))
          /\ UNCHANGED <<log, proof>>
    /\ UNCHANGED <<protocol, statements, cursor, table, sets, pairing, calls>>

\* let z = transcript.squeeze_challenge()
SqueezeZ == Squeeze("z", "evaluations")

\* transcript.read_n_scalars(protocol.evaluations.len())?
ReadEvaluations ==
    /\ pc = "evaluations"
    /\ \/ /\ log' = Append(log, Op("read_n_scalars", Len(protocol.evaluations), "evaluations"))
          /\ \E read \in [1..Len(protocol.evaluations) -> EvalVals] :
                proof' = [proof EXCEPT !.evaluations = read]
          /\ pc' = "mu"
          /\ result' = result
       \/ /\ Return(Err("TranscriptRead", 0))
          /\ UNCHANGED <<log, proof>>
    /\ UNCHANGED <<protocol, statements, cursor, table, sets, pairing, calls>>

\* let mu = transcript.squeeze_challenge()
SqueezeMu == Squeeze("mu", "gamma")

\* let gamma = transcript.squeeze_challenge()
SqueezeGamma == Squeeze("gamma", "w")

ReadPoint(at, then) ==
    /\ pc = at
    /\ \/ /\ log' = Append(log, Op("read_ec_point", 0, at))
          /\ proof' = [proof EXCEPT ![at] = <<at, 0>>]
          /\ pc' = then
          /\ result' = result
       \/ /\ Return(Err("TranscriptRead", 0))
          /\ UNCHANGED <<log, proof>>
    /\ UNCHANGED <<protocol, statements, cursor, table, sets, pairing, calls>>

\* let w = transcript.read_ec_point()?
ReadW == ReadPoint("w", "z_prime")

\* let z_prime = transcript.squeeze_challenge()
SqueezeZPrime == Squeeze("z_prime", "w_prime")

\* let w_prime = transcript.read_ec_point()?; Proof::read returns Ok
ReadWPrime == ReadPoint("w_prime", "evaluate")

\* langranges, CommonPolynomialEvaluation::new, proof.commitments, proof.evaluations
ComputeEvaluations ==
    /\ pc = "evaluate"
    /\ IF CommonPolyEvalPanics(proof.z) \/ CommitmentsPanics(proof)
       THEN Panic /\ table' = table
       ELSE LET common_poly_eval == CommonPolyEval(protocol, statements, proof.z)
                evaluations == InitialEvaluations(protocol, proof, common_poly_eval)
                terms == RelationTerms(protocol, proof, evaluations, common_poly_eval)
            IN  IF FirstError(terms) # NoResult
                THEN Return(FirstError(terms)) /\ table' = table
                ELSE /\ table' = Insert(evaluations, Query(VanishingPoly(protocol), 0),
                                        QuotientEvaluation(terms, proof.z))
                     /\ pc' = "intermediate_sets"
                     /\ result' = result
    /\ UNCHANGED <<protocol, statements, cursor, log, proof, sets, pairing, calls>>

\* intermediate_sets(protocol, loader, &proof.z, &proof.z_prime)
BuildIntermediateSets ==
    /\ pc = "intermediate_sets"
    /\ LET built == IntermediateSets(protocol.queries, proof.z, proof.z_prime)
       IN  IF built.panicked
           THEN Panic /\ sets' = sets
           ELSE pc' = "combine" /\ sets' = built.sets /\ result' = result
    /\ UNCHANGED <<protocol, statements, cursor, log, proof, table, pairing, calls>>

\* the set MSMs, f, rhs and lhs
CombineSets ==
    /\ pc = "combine"
    /\ LET commitments == Commitments(protocol, proof)
       IN  IF \E s \in 1..Len(sets) : MsmPanics(sets[s], commitments, table)
           THEN Panic /\ pairing' = pairing
           ELSE /\ pairing' = Combine(sets, commitments, table, proof)
                /\ pc' = "process"
                /\ result' = result
    /\ UNCHANGED <<protocol, statements, cursor, log, proof, table, sets, calls>>

\* what a VerificationStrategy may answer
StrategyOutcomes == {Ok(TRUE), Ok(FALSE), Err("Strategy", 0)}

\* strategy.process(loader, proof, lhs, rhs)
Process ==
    /\ pc = "process"
    /\ calls' = calls + 1
    /\ \E outcome \in StrategyOutcomes : Return(outcome)
    /\ UNCHANGED <<protocol, statements, cursor, log, proof, table, sets, pairing>>

Next ==
    \/ AbsorbInitialState
    \/ CheckStatements
    \/ AbsorbStatement
    \/ StatementsDone
    \/ ReadAuxiliaries
    \/ SqueezeChallenges
    \/ PhasesDone
    \/ SqueezeAlpha
    \/ ReadQuotients
    \/ SqueezeZ
    \/ ReadEvaluations
    \/ SqueezeMu
    \/ SqueezeGamma
    \/ ReadW
    \/ SqueezeZPrime
    \/ ReadWPrime
    \/ ComputeEvaluations
    \/ BuildIntermediateSets
    \/ CombineSets
    \/ Process

Spec == Init /\ [][Next]_vars

-----------------------------------------------------------------------------
(* SpecSets: intermediate_sets applied to every short query sequence       *)

InitSets ==
    /\ protocol = QueriesOnlyProtocol(<<>>)
    /\ statements = <<>>
    /\ pc = "intermediate_sets"
    /\ cursor = 0
    /\ log = <<>>
    /\ proof \in {[EmptyProof EXCEPT !.z = z, !.z_prime = z_prime] :
                    z \in PointVals, z_prime \in PointVals}
    /\ table = <<>>
    /\ sets = <<>>
    /\ pairing = <<>>
    /\ calls = 0
    /\ result = NoResult

\* one more entry of protocol.queries
AddQuery ==
    /\ pc = "intermediate_sets"
    /\ Len(protocol.queries) < MaxQueries
    /\ \E poly \in Polys, rotation \in Rotations :
            protocol' = [protocol EXCEPT !.queries = Append(@, Query(poly, rotation))]
    /\ UNCHANGED <<statements, pc, cursor, log, proof, table, sets, pairing, calls, result>>

NextSets == AddQuery \/ BuildIntermediateSets

SpecSets == InitSets /\ [][NextSets]_vars

-----------------------------------------------------------------------------
(* Properties of intermediate_sets (checked under SpecSets)                *)

SetsReturned == pc = "combine"

QueriedPolys == {protocol.queries[i].poly : i \in 1..Len(protocol.queries)}

\* every rotation at which poly is queried
QueriedRotations(poly) ==
    {protocol.queries[i].rotation :
        i \in {h \in 1..Len(protocol.queries) : protocol.queries[h].poly = poly}}

\* index in protocol.queries of the first query on poly
FirstAppearance(poly) ==
    CHOOSE i \in 1..Len(protocol.queries) :
        /\ protocol.queries[i].poly = poly
        /\ \A h \in 1..(i - 1) : protocol.queries[h].poly # poly

RotationSet(set) == {set.rotations[j] : j \in 1..Len(set.rotations)}

\* C3: the sets returned by intermediate_sets partition the queried polys by
\* rotation set: every queried poly is in exactly one set, once; the set's
\* rotations are exactly the rotations the poly is queried at; no two sets
\* share a rotation set; sets are ordered by the first appearance of their
\* first poly and polys inside a set by their first appearance.
C3_SetPartition ==
    SetsReturned =>
        /\ \A poly \in QueriedPolys :
                Cardinality({st \in {<<s, t>> : s \in 1..Len(sets), t \in 1..MaxQueries} :
                                /\ st[2] <= Len(sets[st[1]].polys)
                                /\ sets[st[1]].polys[st[2]] = poly}) = 1
        /\ \A s \in 1..Len(sets) :
                /\ sets[s].polys # <<>>
                /\ \A t \in 1..Len(sets[s].polys) :
                        /\ sets[s].polys[t] \in QueriedPolys
                        /\ RotationSet(sets[s]) = QueriedRotations(sets[s].polys[t])
                /\ Cardinality(RotationSet(sets[s])) = Len(sets[s].rotations)
        /\ \A s1, s2 \in 1..Len(sets) :
                s1 < s2 =>
                    /\ RotationSet(sets[s1]) # RotationSet(sets[s2])
                    /\ FirstAppearance(sets[s1].polys[1]) < FirstAppearance(sets[s2].polys[1])
        /\ \A s \in 1..Len(sets) : \A t1, t2 \in 1..Len(sets[s].polys) :
                t1 < t2 => FirstAppearance(sets[s].polys[t1]) < FirstAppearance(sets[s].polys[t2])

\* two sets, the second holding two polys
C3_Witness ==
    /\ SetsReturned
    /\ Len(protocol.queries) = 4
    /\ Len(sets) = 2
    /\ Len(sets[1].rotations) = 2
    /\ protocol.queries[2].poly # protocol.queries[1].poly

\* the vanishing product of a rotation list at z_prime, computed directly
RECURSIVE Vanishing(_, _, _)
Vanishing(rotations, z, z_prime) ==
    IF rotations = <<>> THEN 1
    ELSE Mul(Sub(z_prime, Mul(z, RotateScalar(1, Head(rotations)))),
             Vanishing(Tail(rotations), z, z_prime))

\* the queries of scenario S4: three queries on one poly at rotations
\* {-1, 0, 1}, then one query on another poly at rotation 0
IsS4(queries) ==
    /\ Len(queries) = 4
    /\ queries[1].poly = queries[2].poly
    /\ queries[2].poly = queries[3].poly
    /\ {queries[1].rotation, queries[2].rotation, queries[3].rotation} = {-1, 0, 1}
    /\ queries[4].poly # queries[1].poly
    /\ queries[4].rotation = 0

\* C4: set 0 and only set 0 has commitment_coeff None; every later set has
\* Some(z_s_first * z_s^-1) with its own vanishing product z_s; the queries
\* of scenario S4 give exactly two sets.
C4_CommitmentCoeff ==
    SetsReturned =>
        /\ sets[1].commitment_coeff = None
        /\ \A s \in 2..Len(sets) :
                sets[s].commitment_coeff =
                    Some(Mul(Vanishing(sets[1].rotations, proof.z, proof.z_prime),
                             Inv(Vanishing(sets[s].rotations, proof.z, proof.z_prime))))
        /\ IsS4(protocol.queries) => Len(sets) = 2

C4_Witness ==
    /\ SetsReturned
    /\ IsS4(protocol.queries)
    /\ sets[2].commitment_coeff # None
    /\ sets[2].commitment_coeff # Some(1)

\* powers_of_z as intermediate_sets hands it to IntermediateSet::new
PowersOfZ == Powers(proof.z, PowersOfZSize(PolyRotations(protocol.queries)))

\* C5: for every set with k rotations, z_pow_k_minus_one = z^(k-1).
C5_ZPowKMinusOne ==
    SetsReturned =>
        \A s \in 1..Len(sets) :
            ZPowKMinusOne(sets[s].rotations, PowersOfZ) = Pow(proof.z, Len(sets[s].rotations) - 1)

\* p(x) for p given by its coefficients, lowest degree first
RECURSIVE EvalPoly(_, _)
EvalPoly(c, x) == IF c = <<>> THEN 0 ELSE Add(Head(c), Mul(x, EvalPoly(Tail(c), x)))

\* sum over j of w_j * p(z * omega^(r_j))
WeightedSum(set, c) ==
    SumSeq([j \in 1..Len(set.rotations) |->
                Mul(set.evaluation_coeffs[j],
                    EvalPoly(c, Mul(proof.z, RotateScalar(1, set.rotations[j]))))])

\* C10 as stated: the weighted sum of the evaluations is p(z_prime).
C10_Unnormalized ==
    SetsReturned =>
        \A s \in 1..Len(sets) : \A c \in [1..Len(sets[s].rotations) -> CoeffVals] :
            WeightedSum(sets[s], c) = EvalPoly(c, proof.z_prime)

\* C10 (amended): for every polynomial p of degree < k, the weighted sum of
\* the evaluations divided by the sum of the weights is p(z_prime).
C10_Normalized ==
    SetsReturned =>
        \A s \in 1..Len(sets) : \A c \in [1..Len(sets[s].rotations) -> CoeffVals] :
            Mul(Inv(SumSeq(sets[s].evaluation_coeffs)), WeightedSum(sets[s], c))
                = EvalPoly(c, proof.z_prime)

\* a set of three rotations was built
C10_Witness ==
    /\ SetsReturned
    /\ \E s \in 1..Len(sets) : Len(sets[s].rotations) = 3

-----------------------------------------------------------------------------
(* Properties of verify_proof (checked under Spec)                         *)

Terminated == pc \in {"done", "panic"}

\* Proof::read has returned Ok
ReadReturned == proof.w_prime # <<>>

TranscriptFailed == result = Err("TranscriptRead", 0)

IsPrefix(s, t) == Len(s) <= Len(t) /\ \A i \in 1..Len(s) : s[i] = t[i]

\* the read and squeeze of every auxiliary phase, in phase order
RECURSIVE PhaseOps(_, _)
PhaseOps(num_auxiliary, num_challenge) ==
    IF num_auxiliary = <<>> \/ num_challenge = <<>> THEN <<>>
    ELSE <<Op("read_n_ec_points", Head(num_auxiliary), "auxiliaries"),
           Op("squeeze_n_challenges", Head(num_challenge), "challenges")>>
         \o PhaseOps(Tail(num_auxiliary), Tail(num_challenge))

\* the canonical order of the transcript operations
CanonicalOrder ==
    <<Op("common_scalar", protocol.transcript_initial_state, "initial_state")>>
    \o [i \in 1..Len(Flatten(statements)) |->
            Op("common_scalar", Flatten(statements)[i], "statement")]
    \o PhaseOps(protocol.num_auxiliary, protocol.num_challenge)
    \o <<Op("squeeze_challenge", 0, "alpha"),
         Op("read_n_ec_points",
            IF protocol.relations = <<>> THEN 0 ELSE MaxDegree(protocol) - 1, "quotients"),
         Op("squeeze_challenge", 0, "z"),
         Op("read_n_scalars", Len(protocol.evaluations), "evaluations"),
         Op("squeeze_challenge", 0, "mu"),
         Op("squeeze_challenge", 0, "gamma"),
         Op("read_ec_point", 0, "w"),
         Op("squeeze_challenge", 0, "z_prime"),
         Op("read_ec_point", 0, "w_prime")>>

EqualPhases == Len(protocol.num_auxiliary) = Len(protocol.num_challenge)

\* C1 as stated: in every run in which no transcript operation fails, the
\* operations performed on the transcript are exactly the canonical order.
C1_EveryRun ==
    (Terminated /\ EqualPhases /\ ~TranscriptFailed) => log = CanonicalOrder

\* C1 (amended): with num_auxiliary and num_challenge of equal length, the
\* operations performed are always a prefix of the canonical order, and
\* exactly the canonical order in every run in which Proof::read returns Ok.
C1_TranscriptOrder ==
    EqualPhases =>
        /\ IsPrefix(log, CanonicalOrder)
        /\ ReadReturned => log = CanonicalOrder

\* two phases and a statement scalar were driven on the transcript
C1_Witness ==
    /\ pc = "process"
    /\ Len(protocol.num_auxiliary) = 2
    /\ Len(protocol.num_challenge) = 2
    /\ Len(Flatten(statements)) = 2
    /\ Len(log) = 16

StatementsMismatch == Len(statements) # protocol.num_statement

\* C2 as stated: with len(statements) != num_statement, verify_proof returns
\* Err(InvalidInstances) having only absorbed transcript_initial_state.
C2_AlwaysInvalidInstances ==
    (pc = "done" /\ StatementsMismatch) =>
        /\ result = Err("InvalidInstances", 0)
        /\ log = <<Op("common_scalar", protocol.transcript_initial_state, "initial_state")>>

\* C2 (amended): with len(statements) != num_statement, verify_proof returns
\* Err(InvalidInstances) having only absorbed transcript_initial_state, unless
\* that absorption itself fails, which is then the error returned; nothing is
\* squeezed or read and no statement scalar is absorbed.
C2_InvalidInstances ==
    StatementsMismatch =>
        /\ pc \in {"start", "read", "done"}
        /\ \A i \in 1..Len(log) : log[i].op = "common_scalar" /\ log[i].into = "initial_state"
        /\ proof = EmptyProof
        /\ pc = "done" =>
            \/ /\ result = Err("InvalidInstances", 0)
               /\ log = <<Op("common_scalar", protocol.transcript_initial_state, "initial_state")>>
            \/ /\ result = Err("TranscriptRead", 0)
               /\ log = <<>>

\* more statements than the protocol has, rejected
C2_Witness ==
    /\ pc = "done"
    /\ Len(statements) > protocol.num_statement
    /\ result = Err("InvalidInstances", 0)
    /\ Len(log) = 1

\* some query of a built set has no entry in the evaluation table
QueryAbsent ==
    \E s \in 1..Len(sets) : \E t \in 1..Len(sets[s].polys) : \E j \in 1..Len(sets[s].rotations) :
        Query(sets[s].polys[t], sets[s].rotations[j]) \notin DOMAIN table

\* C6: when a query of a set is absent from the evaluation table, verify_proof
\* returns Err(MissingQuery(q)), it does not panic, and strategy.process is
\* not called.
C6_MissingQueryReturned ==
    (Terminated /\ QueryAbsent) =>
        /\ pc = "done"
        /\ result.tag = "Err"
        /\ result.val[1] = "MissingQuery"
        /\ calls = 0

\* the longest statement the protocol's domain has Lagrange polynomials for
KnownStatementLen == N

StatementTooLong == \E i \in 1..Len(statements) : Len(statements[i]) > KnownStatementLen

\* C7: with num_statement statements of which one is longer than the protocol
\* knows, strategy.process is not called and verify_proof, unless the
\* transcript or a relation fails first, returns Err(InvalidInstances).
C7_LongStatementRejected ==
    (~StatementsMismatch /\ StatementTooLong) =>
        /\ calls = 0
        /\ result.tag # "Ok"

\* gamma^(S-s) * mu^(m-t) for poly t of set s, both counted from 1
Weight(s, t) ==
    Mul(Pow(proof.gamma, Len(sets) - s), Pow(proof.mu, Len(sets[s].polys) - t))

CommitmentCoeffOrOne(set) == IF set.commitment_coeff = None THEN 1 ELSE set.commitment_coeff[1]

\* the poly slots <<s, t>> of the sets, as a sequence
RECURSIVE SlotsFrom(_)
SlotsFrom(s) ==
    IF s > Len(sets) THEN <<>>
    ELSE [t \in 1..Len(sets[s].polys) |-> <<s, t>>] \o SlotsFrom(s + 1)

\* the coefficient of point g in the weighted sum of the set MSMs
ExpectedBase(g) ==
    LET slots == SlotsFrom(1)
    IN  SumSeq([i \in 1..Len(slots) |->
            LET set == sets[slots[i][1]]
            IN  Mul(Weight(slots[i][1], slots[i][2]),
                    Mul(CommitmentCoeffOrOne(set),
                        Commitments(protocol, proof)[set.polys[slots[i][2]]].bases[g]))])

\* the constant of the weighted sum of the set MSMs
ExpectedScalar ==
    LET slots == SlotsFrom(1)
    IN  SumSeq([i \in 1..Len(slots) |->
            LET set == sets[slots[i][1]]
                poly == set.polys[slots[i][2]]
            IN  Mul(Weight(slots[i][1], slots[i][2]),
                    Neg(Mul(set.remainder_coeff,
                            SumSeq([j \in 1..Len(set.rotations) |->
                                        Mul(set.evaluation_coeffs[j],
                                            table[Query(poly, set.rotations[j])])]))))])

ExpectedLhs ==
    [scalar |-> ExpectedScalar,
     bases |-> [g \in Points |->
                    Add(ExpectedBase(g),
                        Add(IF g = proof.w
                            THEN Neg(Vanishing(sets[1].rotations, proof.z, proof.z_prime))
                            ELSE 0,
                            IF g = proof.w_prime THEN proof.z_prime ELSE 0))]]

ExpectedRhs ==
    [scalar |-> 0, bases |-> [g \in Points |-> IF g = proof.w_prime THEN 1 ELSE 0]]

\* C8: the pair handed to strategy.process is rhs = 1*w_prime and
\* lhs = sum over s of gamma^(S-1-s) * MSM_s - z_s_first * w + z_prime * w_prime,
\* where poly t of the m polys of a set is weighted by mu^(m-1-t).
C8_PairingInputs ==
    (pc = "process" \/ calls > 0) => pairing = <<ExpectedLhs, ExpectedRhs>>

\* two sets, the second of two polys, combined
C8_Witness ==
    /\ pc = "process"
    /\ Len(sets) = 2
    /\ Len(sets[2].polys) = 2
    /\ proof.gamma # 1
    /\ proof.mu # 1

\* the results of the relations, evaluated as Proof::evaluations does
RelationResults ==
    LET common_poly_eval == CommonPolyEval(protocol, statements, proof.z)
    IN  RelationTerms(protocol, proof, InitialEvaluations(protocol, proof, common_poly_eval),
                      common_poly_eval)

C9_State ==
    /\ calls <= 1
    /\ calls = 1 <=> (pc = "done" /\ pairing # <<>>)
    /\ pc = "process" <=> (pairing # <<>> /\ calls = 0)
    /\ (pc = "done" /\ calls = 0) => (result.tag = "Err" /\ result.val[1] # "Strategy")
    /\ (pc = "done" /\ result.tag = "Err" /\ result.val[1] \in {"MissingQuery", "MissingChallenge"}) =>
            \E i \in 1..Len(protocol.relations) :
                /\ RelationResults[i] = result
                /\ \A h \in 1..(i - 1) : RelationResults[h].tag = "Ok"
    /\ (pc = "done" /\ result = Err("InvalidInstances", 0)) => StatementsMismatch

C9_Step ==
    result.tag = "Err" => (log' = log /\ calls' = calls /\ result' = result /\ pc' = pc)

\* C9: strategy.process is called at most once and exactly when every earlier
\* step succeeded; the first error is what verify_proof returns, and after
\* it nothing more is read, squeezed or processed.
C9_FirstErrorAborts == []C9_State /\ [][C9_Step]_vars

\* a relation fails on a challenge before a later one fails on a query
C9_Witness ==
    /\ pc = "done"
    /\ result = Err("MissingChallenge", 1)
    /\ calls = 0
    /\ Len(log) > 10

\* ---------------------------------------------------------------------------
\* Auxiliary phases (Proof::read, the zip over num_auxiliary and num_challenge)

\* the phase loop is over: alpha has been squeezed
PhasesCompleted == \E i \in 1..Len(log) : log[i].into = "alpha"

\* the point counts of the auxiliary reads performed, in order
AuxiliaryReads ==
    LET reads == SelectSeq(log, LAMBDA o : o.into = "auxiliaries")
    IN  [i \in 1..Len(reads) |-> reads[i].arg]

RECURSIVE NatSum(_)
NatSum(seq) == IF seq = <<>> THEN 0 ELSE Head(seq) + NatSum(Tail(seq))

\* C11: the number of auxiliary phases driven on the transcript is
\* len(num_auxiliary): phase i reads exactly num_auxiliary[i] EC points, also
\* when num_challenge has fewer entries, and the flattened auxiliaries have
\* length equal to the sum of all num_auxiliary entries.
C11_AllPhasesDriven ==
    PhasesCompleted =>
        /\ AuxiliaryReads = protocol.num_auxiliary
        /\ Len(proof.auxiliaries) = NatSum(protocol.num_auxiliary)

\* ---------------------------------------------------------------------------
\* The set MSMs under either value of z_pow_k_minus_one

\* the set with its weights and remainder_coeff computed as IntermediateSet::new
\* computes them, from the given value of z_pow_k_minus_one
WithZPow(set, z_pow_k_minus_one, z, z_prime) ==
    LET omegas == Omegas(set.rotations)
        normalized_ell_primes == NormalizedEllPrimes(omegas)
        barycentric_weights ==
            [j \in 1..Len(set.rotations) |->
                Inv(BarycentricValue(omegas[j], normalized_ell_primes[j],
                                     z_pow_k_minus_one, z_prime, z))]
    IN  [set EXCEPT !.evaluation_coeffs = barycentric_weights,
                    !.remainder_coeff =
                        RemainderCoeff(set.commitment_coeff, Inv(SumSeq(barycentric_weights)))]

\* the sets computed with z_pow_k_minus_one = 1
SetsWithOne == [s \in 1..Len(sets) |-> WithZPow(sets[s], 1, proof.z, proof.z_prime)]

\* the sets computed with z_pow_k_minus_one = z^(k-1)
SetsWithZPow ==
    [s \in 1..Len(sets) |->
        WithZPow(sets[s], Pow(proof.z, Len(sets[s].rotations) - 1), proof.z, proof.z_prime)]

\* C12: the constant term a set contributes to its MSM does not depend on the
\* value used for z_pow_k_minus_one: the weights computed with 1 (which are the
\* ones verify_proof uses) and with z^(k-1) give the same set MSM and the same
\* (lhs, rhs), for every z # 0 for which all inversions are defined.
C12_ZPowIrrelevant ==
    (pc = "process" \/ calls > 0) =>
        LET commitments == Commitments(protocol, proof)
            powers_of_mu == Powers(proof.mu, Max({Len(sets[s].polys) : s \in 1..Len(sets)}))
        IN  /\ proof.z # 0
            /\ SetsWithOne = sets
            /\ \A s \in 1..Len(sets) :
                    Msm(SetsWithZPow[s], commitments, table, powers_of_mu)
                        = Msm(SetsWithOne[s], commitments, table, powers_of_mu)
            /\ Combine(SetsWithZPow, commitments, table, proof) = pairing

\* a set of two rotations whose weights differ between the two values, and
\* whose polys contribute a non-zero constant
C12_Witness ==
    /\ pc = "process"
    /\ pairing[1].scalar # 0
    /\ \E s \in 1..Len(sets) :
            /\ Len(sets[s].rotations) >= 2
            /\ Pow(proof.z, Len(sets[s].rotations) - 1) # 1
            /\ SetsWithZPow[s].evaluation_coeffs # sets[s].evaluation_coeffs

=============================================================================
